---- MODULE Spec2Model ----
(***************************************************************************)
(* ContrastMode of ginga (src/ginga/modes/contrast.py): the interaction    *)
(* mode that maps the cursor position to the contrast and brightness       *)
(* stored in the viewer settings.                                          *)
(*                                                                         *)
(* Floating point values are modelled as exact reduced fractions           *)
(* [kind |-> "num", n, d], plus the IEEE specials numpy produces for a     *)
(* division by zero: [kind |-> "nan"] and [kind |-> "inf"] (n = sign).     *)
(***************************************************************************)
EXTENDS Integers, FiniteSets, Sequences, TLC

VARIABLES
    contrast,     \* viewer.get_settings()['contrast']
    brightness,   \* viewer.get_settings()['brightness']
    win_wd,       \* window width, as viewer.get_window_size() reports it
    win_ht,       \* window height, as viewer.get_window_size() reports it
    start_xy,     \* (self._start_x, self._start_y); <<>> before the first press
    message,      \* text of the onscreen message, "None" when cleared
    settings,     \* self.settings: the mode's own settings (msg_cmap, ...)
    event         \* the event last dispatched to the mode, with its outcome

vars == <<contrast, brightness, win_wd, win_ht, start_xy, message, settings,
          event>>

---------------------------------------------------------------------------
(* Bounds of the model *)

MaxWin == 2        \* window widths and heights range over 0..MaxWin
MaxStart == 0      \* button presses and releases happen at 0..MaxStart

WinSizes == 0..MaxWin
PosWinSizes == 1..MaxWin
Cursor == (0 - 1)..(MaxWin + 1)     \* one pixel beyond every window edge
StartCursor == 0..MaxStart
SettingsKeys == {"msg_cmap", "msg_contrast"}
\* the mode's settings: the message keys left unset (the default, on) or off
SettingsChoices == {[k \in K |-> FALSE] : K \in {{}, SettingsKeys}}

---------------------------------------------------------------------------
(* Floating point arithmetic on exact fractions *)

Abs(a) == IF a < 0 THEN 0 - a ELSE a

RECURSIVE Gcd(_, _)
Gcd(a, b) == IF b = 0 THEN a ELSE Gcd(b, a % b)

Num(n, d) == [kind |-> "num", n |-> n, d |-> d]
NaN == [kind |-> "nan", n |-> 0, d |-> 0]
Inf(sign) == [kind |-> "inf", n |-> sign, d |-> 0]

\* the float a / b for integers a, b >= 0 with b > 0, in lowest terms
Reduce(a, b) == LET g == Gcd(Abs(a), b) IN Num(a \div g, b \div g)

\* numpy scalar true division by a float: x / 0.0 warns and gives nan or inf
Div(a, b) ==
    IF b # 0 THEN Reduce(a, b)
    ELSE IF a = 0 THEN NaN
    ELSE Inf(IF a > 0 THEN 1 ELSE 0 - 1)

\* 1.0 - v
OneMinus(v) ==
    IF v.kind = "num" THEN Reduce(v.d - v.n, v.d)
    ELSE IF v.kind = "inf" THEN Inf(0 - v.n)
    ELSE NaN

\* faulty variant: the lower bound is not applied
Clip_NoLower(v, lo, hi) == IF v > hi THEN hi ELSE v

\* np.clip(v, lo, hi) == minimum(maximum(v, lo), hi)
Clip(v, lo, hi) ==
    LET m == IF v < lo THEN lo ELSE v
    IN  IF m > hi THEN hi ELSE m

Half == Num(1, 2)

---------------------------------------------------------------------------
(* Helpers of the mode *)

\* self.settings.get(key, default)
settings_get(key, default) ==
    IF key \in DOMAIN settings THEN settings[key] ELSE default

\* contrast_pct = np.clip(y, 0, win_ht) / float(win_ht)
contrast_pct(y, ht) == Div(Clip(y, 0, ht), ht)

\* faulty variant: the percentage is not inverted
brightness_pct_NoInvert(x, wd) == Div(Clip(x, 0, wd), wd)

\* brightness_pct = 1.0 - np.clip(x, 0, win_wd) / float(win_wd)
brightness_pct(x, wd) == OneMinus(Div(Clip(x, 0, wd), wd))

\* faulty variant: the two axes are exchanged
tweak_colormap_Swapped(x, y, wd, ht) ==
    /\ contrast' = contrast_pct(x, ht)
    /\ brightness' = brightness_pct(y, wd)

\* _tweak_colormap(viewer, x, y, mode) in a window (wd, ht)
tweak_colormap(x, y, wd, ht) ==
    /\ contrast' = contrast_pct(y, ht)
    /\ brightness' = brightness_pct(x, wd)

\* faulty variant: only the contrast is restored
restore_contrast_ContrastOnly(msg) ==
    /\ contrast' = Half
    /\ UNCHANGED brightness
    /\ message' = IF settings_get("msg_cmap", msg)
                  THEN "Restored contrast" ELSE message

\* restore_contrast(viewer, msg): the settings and the message it leaves
restore_contrast(msg) ==
    /\ contrast' = Half
    /\ brightness' = Half
    /\ message' = IF settings_get("msg_cmap", msg)
                  THEN "Restored contrast" ELSE message

\* an event given to the mode: its handler and state, what event.accept() and
\* the handler's return value left, and the cursor position the handler read
\* with get_win_xy (<<>> when it read none)
Event(h, st, acc, ret, xy) ==
    [handler |-> h, state |-> st, accepted |-> acc, ret |-> ret, xy |-> xy]

\* "if not self.cancmap: return False": nothing but the return value
Refused(h, st) ==
    /\ event' = Event(h, st, FALSE, "False", <<>>)
    /\ UNCHANGED <<contrast, brightness, win_wd, win_ht, start_xy, message,
                   settings>>

---------------------------------------------------------------------------
(* Operations *)

Init ==
    /\ contrast = Half
    /\ brightness = Half
    /\ win_wd \in PosWinSizes
    /\ win_ht \in PosWinSizes
    /\ start_xy = <<>>
    /\ message = "None"
    /\ settings \in SettingsChoices
    /\ event = Event("init", "none", FALSE, "None", <<>>)

\* the viewer's window is resized (the value get_window_size returns)
set_window_size(wd, ht) ==
    /\ win_wd' = wd
    /\ win_ht' = ht
    /\ UNCHANGED <<contrast, brightness, start_xy, message, settings, event>>

start ==
    /\ event' = Event("start", "none", FALSE, "None", <<>>)
    /\ UNCHANGED <<contrast, brightness, win_wd, win_ht, start_xy, message,
                   settings>>

stop ==
    /\ message' = "None"
    /\ event' = Event("stop", "none", FALSE, "None", <<>>)
    /\ UNCHANGED <<contrast, brightness, win_wd, win_ht, start_xy, settings>>

kp_contrast_restore(cancmap) ==
    IF ~cancmap THEN Refused("kp_contrast_restore", "down")
    ELSE /\ event' = Event("kp_contrast_restore", "down", TRUE, "None", <<>>)
         /\ restore_contrast(settings_get("msg_cmap", TRUE))
         /\ UNCHANGED <<win_wd, win_ht, start_xy, settings>>

\* faulty variant: the release tweaks the colormap as a move does
ms_contrast_TweakOnRelease(cancmap, st, x, y) ==
    IF ~cancmap THEN Refused("ms_contrast", st)
    ELSE /\ event' = Event("ms_contrast", st, TRUE, "None", <<x, y>>)
         /\ UNCHANGED <<win_wd, win_ht, settings>>
         /\ IF st = "down" THEN
                /\ start_xy' = <<x, y>>
                /\ message' = IF settings_get("msg_contrast", TRUE)
                              THEN "Shift and stretch colormap (drag mouse)"
                              ELSE message
                /\ UNCHANGED <<contrast, brightness>>
            ELSE
                /\ tweak_colormap(x, y, win_wd, win_ht)
                /\ message' = IF st = "move" THEN message ELSE "None"
                /\ UNCHANGED start_xy

ms_contrast(cancmap, st, x, y) ==
    IF ~cancmap THEN Refused("ms_contrast", st)
    ELSE /\ event' = Event("ms_contrast", st, TRUE, "None", <<x, y>>)
         /\ UNCHANGED <<win_wd, win_ht, settings>>
         /\ IF st = "move" THEN
                /\ tweak_colormap(x, y, win_wd, win_ht)
                /\ UNCHANGED <<start_xy, message>>
            ELSE IF st = "down" THEN
                /\ start_xy' = <<x, y>>
                /\ message' = IF settings_get("msg_contrast", TRUE)
                              THEN "Shift and stretch colormap (drag mouse)"
                              ELSE message
                /\ UNCHANGED <<contrast, brightness>>
            ELSE
                /\ message' = "None"
                /\ UNCHANGED <<contrast, brightness, start_xy>>

\* faulty variant: every state of the button restores, not the press alone
ms_contrast_restore_AnyState(cancmap, st) ==
    IF ~cancmap THEN Refused("ms_contrast_restore", st)
    ELSE /\ event' = Event("ms_contrast_restore", st, TRUE, "None", <<>>)
         /\ UNCHANGED <<win_wd, win_ht, start_xy, settings>>
         /\ restore_contrast(TRUE)

ms_contrast_restore(cancmap, st) ==
    IF ~cancmap THEN Refused("ms_contrast_restore", st)
    ELSE /\ event' = Event("ms_contrast_restore", st, TRUE, "None", <<>>)
         /\ UNCHANGED <<win_wd, win_ht, start_xy, settings>>
         /\ IF st = "down" THEN restore_contrast(TRUE)
            ELSE UNCHANGED <<contrast, brightness, message>>

\* a refused handler returns before it reads the cursor: one position stands
\* for all of them
CursorRead(cancmap, x, y) == cancmap \/ (x = 0 /\ y = 0)

NextIn(Sizes) ==
    \/ \E wd, ht \in Sizes : set_window_size(wd, ht)
    \/ start
    \/ stop
    \/ \E c \in BOOLEAN : kp_contrast_restore(c)
    \/ \E c \in BOOLEAN, x, y \in Cursor :
           CursorRead(c, x, y) /\ ms_contrast(c, "move", x, y)
    \/ \E c \in BOOLEAN, x, y \in StartCursor :
           CursorRead(c, x, y) /\ ms_contrast(c, "down", x, y)
    \/ \E c \in BOOLEAN, x, y \in StartCursor :
           CursorRead(c, x, y) /\ ms_contrast(c, "up", x, y)
    \/ \E c \in BOOLEAN, st \in {"down", "move", "up"} :
           ms_contrast_restore(c, st)

Next == NextIn(WinSizes)
Spec == Init /\ [][Next]_vars

NextPos == NextIn(PosWinSizes)
SpecPos == Init /\ [][NextPos]_vars

---------------------------------------------------------------------------
(* Properties *)

\* a float in the closed interval [0, 1]
InUnit(v) == v.kind = "num" /\ v.d > 0 /\ 0 <= v.n /\ v.n <= v.d

\* a <= b for two fractions
Leq(a, b) == a.kind = "num" /\ b.kind = "num" /\ a.n * b.d <= b.n * a.d

Zero == Num(0, 1)
One == Num(1, 1)

Accepted(h, st) ==
    event.handler = h /\ event.state = st /\ event.accepted

Moved(e) == e.handler = "ms_contrast" /\ e.state = "move" /\ e.accepted

IsRestore(e) ==
    /\ e.accepted
    /\ \/ e.handler = "kp_contrast_restore"
       \/ e.handler = "ms_contrast_restore" /\ e.state = "down"

\* C1: with window sizes that are always positive, after any sequence of
\* events the contrast and the brightness in the viewer settings both lie
\* in [0, 1].
C1_Normalized == InUnit(contrast) /\ InUnit(brightness)

\* a move with the cursor beyond the bottom and the left edge was handled
C1_Witness ==
    /\ Accepted("ms_contrast", "move")
    /\ event.xy = <<0 - 1, MaxWin + 1>>
    /\ contrast = One
    /\ brightness = One

\* C2: an allowed T key or right-button press leaves contrast = brightness
\* = 0.5 whatever the values were, and a restore that follows a restore
\* changes nothing.
C2_Restore ==
    [][IsRestore(event') =>
          /\ contrast' = Half
          /\ brightness' = Half
          /\ IsRestore(event) =>
                 UNCHANGED <<contrast, brightness, message, start_xy>>]_vars

\* a restore was handled after a drag and left its message
C2_Witness ==
    /\ IsRestore(event)
    /\ start_xy # <<>>
    /\ contrast = Half
    /\ message = "Restored contrast"

\* C3: an allowed move at (x, y) in a window (wd, ht) with wd, ht > 0 writes
\* contrast = clip(y, 0, ht) / ht and brightness = 1 - clip(x, 0, wd) / wd;
\* the contrast does not depend on x and the brightness does not depend on y.
C3_Mapping ==
    [][LET x == event'.xy[1]
           y == event'.xy[2]
       IN  (/\ Moved(event')
            /\ win_wd > 0 /\ win_ht > 0
            /\ ms_contrast(TRUE, "move", x, y)) =>
               /\ contrast' = Reduce(Clip(y, 0, win_ht), win_ht)
               /\ brightness' = Reduce(win_wd - Clip(x, 0, win_wd), win_wd)]_vars

\* a move at (1, 1) in a window of width 1 and height 2 was handled
C3_Witness ==
    /\ Accepted("ms_contrast", "move")
    /\ event.xy = <<1, 1>>
    /\ contrast = Half
    /\ brightness = Num(0, 1)

\* C4: the press and the release of a left drag leave contrast and
\* brightness as they were, so the release keeps what the last move wrote.
C4_ReleaseKeeps ==
    [][(event'.handler = "ms_contrast" /\ event'.state # "move") =>
          UNCHANGED <<contrast, brightness>>]_vars

\* a drag was released with values that only a move can have written
C4_Witness ==
    /\ Accepted("ms_contrast", "up")
    /\ start_xy # <<>>
    /\ contrast = One
    /\ brightness = Zero

\* C5: an allowed ms_contrast_restore event whose state is not 'down' is
\* accepted and changes neither contrast, brightness nor the message.
C5_RestoreOnPressOnly ==
    [][\A st \in {"move", "up"} :
          ms_contrast_restore(TRUE, st) =>
              /\ event'.accepted
              /\ UNCHANGED <<contrast, brightness, message>>]_vars

\* the right button was released over adjusted settings, which it kept
C5_Witness ==
    /\ Accepted("ms_contrast_restore", "up")
    /\ contrast = One
    /\ brightness = Zero
    /\ message # "Restored contrast"

\* C6: in a window with wd, ht > 0 a move with x <= 0 gives brightness 1,
\* x >= wd gives 0, y <= 0 gives contrast 0 and y >= ht gives 1; brightness
\* is non-increasing in x and contrast non-decreasing in y.
C6_Clamping ==
    [][LET x == event'.xy[1]
           y == event'.xy[2]
       IN  (/\ Moved(event')
            /\ win_wd > 0 /\ win_ht > 0
            /\ ms_contrast(TRUE, "move", x, y)) =>
               /\ x <= 0 => brightness' = One
               /\ x >= win_wd => brightness' = Zero
               /\ y <= 0 => contrast' = Zero
               /\ y >= win_ht => contrast' = One
               /\ \A x2 \in Cursor :
                      x2 >= x => Leq(brightness_pct(x2, win_wd), brightness')
               /\ \A y2 \in Cursor :
                      y2 >= y => Leq(contrast', contrast_pct(y2, win_ht))]_vars

\* a move beyond the top and the right edge was handled
C6_Witness ==
    /\ Accepted("ms_contrast", "move")
    /\ event.xy = <<MaxWin + 1, 0 - 1>>
    /\ contrast = Zero
    /\ brightness = Zero

\* C7: after an allowed move in a window of width 0 or height 0 the contrast
\* and the brightness in the settings are defined values in [0, 1].
C7_DegenerateWindow ==
    (Accepted("ms_contrast", "move") /\ (win_wd = 0 \/ win_ht = 0)) =>
        (InUnit(contrast) /\ InUnit(brightness))

====
